---- MODULE Spec2Model ----
(***************************************************************************)
(* MoodTune: keyword-based mood detection and static song catalog lookup.  *)
(*                                                                         *)
(* A Python str is modelled as a sequence of one-character strings.  A     *)
(* Python dict is modelled as a sequence of [key, value] records, which    *)
(* keeps the insertion order that dict iteration follows.  A float with    *)
(* two decimals (confidence, energy, valence) is modelled by its value in  *)
(* hundredths, so 0.5 is 50.                                               *)
(***************************************************************************)
EXTENDS Integers, Sequences, FiniteSets, TLC

VARIABLES
  emotion_keywords,  \* MoodDetector.emotion_keywords of the shared instance
  song_database,     \* MusicRecommender.song_database of the shared instance
  pc,                \* per caller: "idle", "called", "detected", "returned"
  call,              \* per caller: the operation invoked and its arguments
  emotion_result,    \* per caller: local of analyze_and_recommend
  ret,               \* per caller: the value returned by the last call
  request,           \* the HTTP request that the API server is handling
  response,          \* the HTTP response that the handler has produced
  core_call,         \* the call that the handler made into MoodTuneAPI
  raised,            \* the text of the exception raised in the handler
  client,            \* SpotifyAPI: whether built, client_id and client_secret
  access_token,      \* SpotifyAPI.access_token
  sp_call,           \* the SpotifyAPI call in progress and what the service replied
  sp_ret             \* the value that the SpotifyAPI call returns

core_vars == <<emotion_keywords, song_database, pc, call, emotion_result, ret>>

server_vars == <<request, response, core_call, raised>>

spotify_vars == <<client, access_token, sp_call, sp_ret>>

vars == <<core_vars, server_vars, spotify_vars>>

-----------------------------------------------------------------------------
(* Construction-time data: the keyword vocabulary and the song catalog.    *)

happy_keywords ==
  [
   primary |->
     << <<"h","a","p","p","y">>,
        <<"j","o","y">>,
        <<"e","x","c","i","t","e","d">>,
        <<"g","r","e","a","t">>,
        <<"a","m","a","z","i","n","g">>,
        <<"w","o","n","d","e","r","f","u","l">>,
        <<"c","h","e","e","r","f","u","l">>,
        <<"d","e","l","i","g","h","t","e","d">> >>,
   secondary |->
     << <<"g","o","o","d">>,
        <<"n","i","c","e">>,
        <<"p","l","e","a","s","e","d">>,
        <<"s","a","t","i","s","f","i","e","d">>,
        <<"c","o","n","t","e","n","t">>,
        <<"u","p","b","e","a","t">> >>,
   intensity |->
     << <<"e","c","s","t","a","t","i","c">>,
        <<"t","h","r","i","l","l","e","d">>,
        <<"o","v","e","r","j","o","y","e","d">>,
        <<"e","u","p","h","o","r","i","c">> >> ]

sad_keywords ==
  [
   primary |->
     << <<"s","a","d">>,
        <<"d","e","p","r","e","s","s","e","d">>,
        <<"d","o","w","n">>,
        <<"l","o","n","e","l","y">>,
        <<"h","e","a","r","t","b","r","o","k","e","n">>,
        <<"m","e","l","a","n","c","h","o","l","y">>,
        <<"m","i","s","e","r","a","b","l","e">> >>,
   secondary |->
     << <<"b","l","u","e">>,
        <<"g","l","o","o","m","y">>,
        <<"d","i","s","a","p","p","o","i","n","t","e","d">>,
        <<"h","u","r","t">>,
        <<"u","p","s","e","t">> >>,
   intensity |->
     << <<"d","e","v","a","s","t","a","t","e","d">>,
        <<"c","r","u","s","h","e","d">>,
        <<"d","e","s","p","o","n","d","e","n","t">>,
        <<"h","o","p","e","l","e","s","s">> >> ]

energetic_keywords ==
  [
   primary |->
     << <<"e","n","e","r","g","e","t","i","c">>,
        <<"p","u","m","p","e","d">>,
        <<"h","y","p","e","r">>,
        <<"m","o","t","i","v","a","t","e","d">>,
        <<"a","c","t","i","v","e">>,
        <<"p","o","w","e","r","f","u","l">> >>,
   secondary |->
     << <<"w","o","r","k","o","u","t">>,
        <<"e","x","e","r","c","i","s","e">>,
        <<"r","u","n">>,
        <<"d","a","n","c","e">>,
        <<"m","o","v","e">> >>,
   intensity |->
     << <<"e","x","p","l","o","s","i","v","e">>,
        <<"u","n","s","t","o","p","p","a","b","l","e">>,
        <<"c","h","a","r","g","e","d">>,
        <<"e","l","e","c","t","r","i","f","i","e","d">> >> ]

calm_keywords ==
  [
   primary |->
     << <<"c","a","l","m">>,
        <<"p","e","a","c","e","f","u","l">>,
        <<"r","e","l","a","x">>,
        <<"c","h","i","l","l">>,
        <<"t","r","a","n","q","u","i","l">>,
        <<"s","e","r","e","n","e">> >>,
   secondary |->
     << <<"m","e","d","i","t","a","t","e">>,
        <<"z","e","n">>,
        <<"q","u","i","e","t">>,
        <<"s","t","i","l","l">>,
        <<"c","o","m","p","o","s","e","d">> >>,
   intensity |->
     << <<"b","l","i","s","s","f","u","l">>,
        <<"c","e","n","t","e","r","e","d">>,
        <<"h","a","r","m","o","n","i","o","u","s">> >> ]

romantic_keywords ==
  [
   primary |->
     << <<"l","o","v","e">>,
        <<"r","o","m","a","n","t","i","c">>,
        <<"c","r","u","s","h">>,
        <<"d","a","t","e">>,
        <<"r","e","l","a","t","i","o","n","s","h","i","p">>,
        <<"t","e","n","d","e","r">> >>,
   secondary |->
     << <<"a","f","f","e","c","t","i","o","n">>,
        <<"c","a","r","i","n","g">>,
        <<"d","e","v","o","t","e","d">>,
        <<"i","n","t","i","m","a","t","e">> >>,
   intensity |->
     << <<"p","a","s","s","i","o","n","a","t","e">>,
        <<"s","m","i","t","t","e","n">>,
        <<"i","n","f","a","t","u","a","t","e","d">>,
        <<"a","d","o","r","i","n","g">> >> ]

angry_keywords ==
  [
   primary |->
     << <<"a","n","g","r","y">>,
        <<"m","a","d">>,
        <<"f","u","r","i","o","u","s">>,
        <<"r","a","g","e">>,
        <<"f","r","u","s","t","r","a","t","e","d">>,
        <<"a","n","n","o","y","e","d">> >>,
   secondary |->
     << <<"i","r","r","i","t","a","t","e","d">>,
        <<"b","o","t","h","e","r","e","d">>,
        <<"p","i","s","s","e","d">>,
        <<"l","i","v","i","d">> >>,
   intensity |->
     << <<"e","n","r","a","g","e","d">>,
        <<"i","n","c","e","n","s","e","d">>,
        <<"o","u","t","r","a","g","e","d">>,
        <<"s","e","e","t","h","i","n","g">> >> ]

anxious_keywords ==
  [
   primary |->
     << <<"a","n","x","i","o","u","s">>,
        <<"n","e","r","v","o","u","s">>,
        <<"w","o","r","r","i","e","d">>,
        <<"s","t","r","e","s","s","e","d">>,
        <<"t","e","n","s","e">>,
        <<"o","v","e","r","w","h","e","l","m","e","d">> >>,
   secondary |->
     << <<"u","n","e","a","s","y">>,
        <<"r","e","s","t","l","e","s","s">>,
        <<"c","o","n","c","e","r","n","e","d">>,
        <<"t","r","o","u","b","l","e","d">> >>,
   intensity |->
     << <<"p","a","n","i","c","k","e","d">>,
        <<"t","e","r","r","i","f","i","e","d">>,
        <<"f","r","a","n","t","i","c">>,
        <<"d","i","s","t","r","e","s","s","e","d">> >> ]

nostalgic_keywords ==
  [
   primary |->
     << <<"n","o","s","t","a","l","g","i","c">>,
        <<"m","e","m","o","r","i","e","s">>,
        <<"r","e","m","e","m","b","e","r">>,
        <<"p","a","s","t">>,
        <<"t","h","r","o","w","b","a","c","k">>,
        <<"r","e","m","i","n","i","s","c","e">> >>,
   secondary |->
     << <<"m","i","s","s","i","n","g">>,
        <<"l","o","n","g","i","n","g">>,
        <<"s","e","n","t","i","m","e","n","t","a","l">>,
        <<"w","i","s","t","f","u","l">> >>,
   intensity |->
     << <<"y","e","a","r","n","i","n","g">>,
        <<"p","i","n","i","n","g">> >> ]

confident_keywords ==
  [
   primary |->
     << <<"c","o","n","f","i","d","e","n","t">>,
        <<"p","o","w","e","r","f","u","l">>,
        <<"s","t","r","o","n","g">>,
        <<"f","i","e","r","c","e">>,
        <<"u","n","s","t","o","p","p","a","b","l","e">>,
        <<"b","o","s","s">> >>,
   secondary |->
     << <<"c","a","p","a","b","l","e">>,
        <<"d","e","t","e","r","m","i","n","e","d">>,
        <<"b","o","l","d">>,
        <<"a","s","s","u","r","e","d">> >>,
   intensity |->
     << <<"i","n","v","i","n","c","i","b","l","e">>,
        <<"d","o","m","i","n","a","n","t">>,
        <<"f","e","a","r","l","e","s","s">>,
        <<"t","r","i","u","m","p","h","a","n","t">> >> ]

\* self.emotion_keywords as built by MoodDetector.__init__
MoodDetector_init ==
  << [key |-> "happy", value |-> happy_keywords],
     [key |-> "sad", value |-> sad_keywords],
     [key |-> "energetic", value |-> energetic_keywords],
     [key |-> "calm", value |-> calm_keywords],
     [key |-> "romantic", value |-> romantic_keywords],
     [key |-> "angry", value |-> angry_keywords],
     [key |-> "anxious", value |-> anxious_keywords],
     [key |-> "nostalgic", value |-> nostalgic_keywords],
     [key |-> "confident", value |-> confident_keywords] >>

happy_songs ==
  <<
    [title |-> "Good Vibrations", artist |-> "The Beach Boys", year |-> 1966, genre |-> "Pop",
     energy |-> 80, valence |-> 90, tags |-> <<"Classic", "Feel-good", "Upbeat">>],
    [title |-> "Walking on Sunshine", artist |-> "Katrina and the Waves", year |-> 1983, genre |-> "Pop",
     energy |-> 90, valence |-> 95, tags |-> <<"80s", "Pop", "Energetic">>],
    [title |-> "Happy", artist |-> "Pharrell Williams", year |-> 2013, genre |-> "Pop",
     energy |-> 80, valence |-> 90, tags |-> <<"Pop", "Dance", "Positive">>],
    [title |-> "Don't Stop Me Now", artist |-> "Queen", year |-> 1978, genre |-> "Rock",
     energy |-> 95, valence |-> 85, tags |-> <<"Rock", "Classic", "Powerful">>],
    [title |-> "I Wanna Dance with Somebody", artist |-> "Whitney Houston", year |-> 1987, genre |-> "Pop",
     energy |-> 90, valence |-> 90, tags |-> <<"Pop", "Dance", "80s">>] >>

sad_songs ==
  <<
    [title |-> "Someone Like You", artist |-> "Adele", year |-> 2011, genre |-> "Pop",
     energy |-> 30, valence |-> 20, tags |-> <<"Ballad", "Emotional", "Piano">>],
    [title |-> "The Night We Met", artist |-> "Lord Huron", year |-> 2015, genre |-> "Indie",
     energy |-> 40, valence |-> 30, tags |-> <<"Indie", "Melancholic", "Acoustic">>],
    [title |-> "Hurt", artist |-> "Johnny Cash", year |-> 2002, genre |-> "Country",
     energy |-> 30, valence |-> 15, tags |-> <<"Country", "Deep", "Emotional">>],
    [title |-> "Mad World", artist |-> "Gary Jules", year |-> 2001, genre |-> "Alternative",
     energy |-> 20, valence |-> 20, tags |-> <<"Alternative", "Somber", "Reflective">>],
    [title |-> "Fix You", artist |-> "Coldplay", year |-> 2005, genre |-> "Rock",
     energy |-> 50, valence |-> 40, tags |-> <<"Rock", "Healing", "Hope">>] >>

energetic_songs ==
  <<
    [title |-> "Eye of the Tiger", artist |-> "Survivor", year |-> 1982, genre |-> "Rock",
     energy |-> 95, valence |-> 75, tags |-> <<"Rock", "Motivational", "80s">>],
    [title |-> "Lose Yourself", artist |-> "Eminem", year |-> 2002, genre |-> "Hip-Hop",
     energy |-> 90, valence |-> 70, tags |-> <<"Hip-Hop", "Intense", "Powerful">>],
    [title |-> "Thunderstruck", artist |-> "AC/DC", year |-> 1990, genre |-> "Rock",
     energy |-> 95, valence |-> 80, tags |-> <<"Rock", "High-energy", "Classic">>],
    [title |-> "Till I Collapse", artist |-> "Eminem ft. Nate Dogg", year |-> 2002, genre |-> "Hip-Hop",
     energy |-> 90, valence |-> 75, tags |-> <<"Hip-Hop", "Workout", "Intense">>],
    [title |-> "Pump It", artist |-> "The Black Eyed Peas", year |-> 2006, genre |-> "Hip-Hop",
     energy |-> 95, valence |-> 80, tags |-> <<"Hip-Hop", "Dance", "Party">>] >>

calm_songs ==
  <<
    [title |-> "Weightless", artist |-> "Marconi Union", year |-> 2011, genre |-> "Ambient",
     energy |-> 10, valence |-> 60, tags |-> <<"Ambient", "Meditation", "Peaceful">>],
    [title |-> "Clair de Lune", artist |-> "Claude Debussy", year |-> 1905, genre |-> "Classical",
     energy |-> 20, valence |-> 70, tags |-> <<"Classical", "Piano", "Serene">>],
    [title |-> "Breathe Me", artist |-> "Sia", year |-> 2004, genre |-> "Alternative",
     energy |-> 30, valence |-> 50, tags |-> <<"Ambient", "Gentle", "Soothing">>],
    [title |-> "Holocene", artist |-> "Bon Iver", year |-> 2011, genre |-> "Indie",
     energy |-> 30, valence |-> 60, tags |-> <<"Indie", "Atmospheric", "Calm">>],
    [title |-> "Intro", artist |-> "The xx", year |-> 2009, genre |-> "Indie",
     energy |-> 25, valence |-> 65, tags |-> <<"Indie", "Minimal", "Dreamy">>] >>

romantic_songs ==
  <<
    [title |-> "Perfect", artist |-> "Ed Sheeran", year |-> 2017, genre |-> "Pop",
     energy |-> 40, valence |-> 80, tags |-> <<"Pop", "Love", "Ballad">>],
    [title |-> "All of Me", artist |-> "John Legend", year |-> 2013, genre |-> "R&B",
     energy |-> 35, valence |-> 75, tags |-> <<"R&B", "Piano", "Tender">>],
    [title |-> "Thinking Out Loud", artist |-> "Ed Sheeran", year |-> 2014, genre |-> "Pop",
     energy |-> 50, valence |-> 80, tags |-> <<"Pop", "Romantic", "Sweet">>],
    [title |-> "Can't Help Falling in Love", artist |-> "Elvis Presley", year |-> 1961, genre |-> "Pop",
     energy |-> 30, valence |-> 85, tags |-> <<"Classic", "Timeless", "Love">>],
    [title |-> "At Last", artist |-> "Etta James", year |-> 1960, genre |-> "Jazz",
     energy |-> 40, valence |-> 90, tags |-> <<"Jazz", "Soulful", "Classic">>] >>

angry_songs ==
  <<
    [title |-> "Break Stuff", artist |-> "Limp Bizkit", year |-> 1999, genre |-> "Nu-Metal",
     energy |-> 95, valence |-> 30, tags |-> <<"Nu-Metal", "Aggressive", "Raw">>],
    [title |-> "Killing in the Name", artist |-> "Rage Against the Machine", year |-> 1992, genre |-> "Rock",
     energy |-> 90, valence |-> 25, tags |-> <<"Rock", "Protest", "Intense">>],
    [title |-> "In the End", artist |-> "Linkin Park", year |-> 2000, genre |-> "Rock",
     energy |-> 80, valence |-> 35, tags |-> <<"Rock", "Emotional", "Powerful">>],
    [title |-> "Last Resort", artist |-> "Papa Roach", year |-> 2000, genre |-> "Nu-Metal",
     energy |-> 85, valence |-> 30, tags |-> <<"Nu-Metal", "Intense", "Cathartic">>],
    [title |-> "Bodies", artist |-> "Drowning Pool", year |-> 2001, genre |-> "Metal",
     energy |-> 95, valence |-> 40, tags |-> <<"Metal", "Aggressive", "Heavy">>] >>

anxious_songs ==
  <<
    [title |-> "Breathe", artist |-> "Pink Floyd", year |-> 1973, genre |-> "Rock",
     energy |-> 40, valence |-> 50, tags |-> <<"Rock", "Calming", "Progressive">>],
    [title |-> "Stressed Out", artist |-> "Twenty One Pilots", year |-> 2015, genre |-> "Alternative",
     energy |-> 60, valence |-> 40, tags |-> <<"Alternative", "Relatable", "Modern">>],
    [title |-> "Everybody Hurts", artist |-> "R.E.M.", year |-> 1992, genre |-> "Rock",
     energy |-> 30, valence |-> 45, tags |-> <<"Rock", "Comforting", "Supportive">>],
    [title |-> "The Scientist", artist |-> "Coldplay", year |-> 2002, genre |-> "Alternative",
     energy |-> 40, valence |-> 50, tags |-> <<"Alternative", "Reflective", "Soothing">>],
    [title |-> "Let It Be", artist |-> "The Beatles", year |-> 1970, genre |-> "Rock",
     energy |-> 40, valence |-> 60, tags |-> <<"Classic", "Reassuring", "Peaceful">>] >>

nostalgic_songs ==
  <<
    [title |-> "Summer of '69", artist |-> "Bryan Adams", year |-> 1984, genre |-> "Rock",
     energy |-> 75, valence |-> 70, tags |-> <<"Rock", "Classic", "Throwback">>],
    [title |-> "Wonderwall", artist |-> "Oasis", year |-> 1995, genre |-> "Britpop",
     energy |-> 60, valence |-> 65, tags |-> <<"Britpop", "90s", "Iconic">>],
    [title |-> "Dream On", artist |-> "Aerosmith", year |-> 1973, genre |-> "Rock",
     energy |-> 70, valence |-> 60, tags |-> <<"Rock", "Classic", "Timeless">>],
    [title |-> "Tears in Heaven", artist |-> "Eric Clapton", year |-> 1992, genre |-> "Ballad",
     energy |-> 30, valence |-> 40, tags |-> <<"Ballad", "Emotional", "Classic">>],
    [title |-> "The Sound of Silence", artist |-> "Simon & Garfunkel", year |-> 1964, genre |-> "Folk",
     energy |-> 30, valence |-> 50, tags |-> <<"Folk", "60s", "Reflective">>] >>

confident_songs ==
  <<
    [title |-> "Stronger", artist |-> "Kanye West", year |-> 2007, genre |-> "Hip-Hop",
     energy |-> 85, valence |-> 75, tags |-> <<"Hip-Hop", "Powerful", "Motivational">>],
    [title |-> "Roar", artist |-> "Katy Perry", year |-> 2013, genre |-> "Pop",
     energy |-> 80, valence |-> 80, tags |-> <<"Pop", "Empowering", "Uplifting">>],
    [title |-> "We Will Rock You", artist |-> "Queen", year |-> 1977, genre |-> "Rock",
     energy |-> 90, valence |-> 75, tags |-> <<"Rock", "Anthem", "Powerful">>],
    [title |-> "Survivor", artist |-> "Destiny's Child", year |-> 2001, genre |-> "R&B",
     energy |-> 75, valence |-> 80, tags |-> <<"R&B", "Empowering", "Strong">>],
    [title |-> "Lose Control", artist |-> "Meduza, Becky Hill", year |-> 2019, genre |-> "Dance",
     energy |-> 90, valence |-> 85, tags |-> <<"Dance", "Confident", "Energetic">>] >>

\* the catalog built without an entry for sad
MusicRecommender_init_noSad ==
  << [key |-> "happy", value |-> happy_songs],
     [key |-> "energetic", value |-> energetic_songs],
     [key |-> "calm", value |-> calm_songs],
     [key |-> "romantic", value |-> romantic_songs],
     [key |-> "angry", value |-> angry_songs],
     [key |-> "anxious", value |-> anxious_songs],
     [key |-> "nostalgic", value |-> nostalgic_songs],
     [key |-> "confident", value |-> confident_songs] >>

\* self.song_database as built by MusicRecommender.__init__
MusicRecommender_init ==
  << [key |-> "happy", value |-> happy_songs],
     [key |-> "sad", value |-> sad_songs],
     [key |-> "energetic", value |-> energetic_songs],
     [key |-> "calm", value |-> calm_songs],
     [key |-> "romantic", value |-> romantic_songs],
     [key |-> "angry", value |-> angry_songs],
     [key |-> "anxious", value |-> anxious_songs],
     [key |-> "nostalgic", value |-> nostalgic_songs],
     [key |-> "confident", value |-> confident_songs] >>

\* the reduced fractions p/q with q in {40, 200} and p odd whose IEEE double
\* lies above the fraction, so that round(p / q, 2) rounds the tie upwards
FloatAboveTie ==
  {
    <<1,40>>, <<9,40>>, <<11,40>>, <<13,40>>, <<21,40>>, <<27,40>>, <<31,40>>, <<37,40>>,
    <<1,200>>, <<7,200>>, <<11,200>>, <<13,200>>, <<17,200>>, <<19,200>>, <<23,200>>, <<27,200>>,
    <<33,200>>, <<39,200>>, <<51,200>>, <<53,200>>, <<63,200>>, <<67,200>>, <<77,200>>, <<79,200>>,
    <<81,200>>, <<89,200>>, <<91,200>>, <<93,200>>, <<101,200>>, <<103,200>>, <<107,200>>, <<109,200>>,
    <<111,200>>, <<127,200>>, <<129,200>>, <<131,200>>, <<133,200>>, <<137,200>>, <<151,200>>, <<153,200>>,
    <<157,200>>, <<159,200>>, <<161,200>>, <<177,200>>, <<179,200>>, <<181,200>>, <<183,200>>, <<187,200>>
  }

-----------------------------------------------------------------------------
(* Python dict operations on the sequence-of-pairs representation.         *)

DictKeys(d) == [i \in 1..Len(d) |-> d[i].key]

DictHas(d, k) == \E i \in 1..Len(d) : d[i].key = k

DictIndex(d, k) == d[CHOOSE i \in 1..Len(d) : d[i].key = k].value

DictGet(d, k, default) == IF DictHas(d, k) THEN DictIndex(d, k) ELSE default

\* the slice taken one element short
PySlice_oneShort(seq, limit) ==
  IF limit >= 1
    THEN SubSeq(seq, 1, IF limit - 1 < Len(seq) THEN limit - 1 ELSE Len(seq))
    ELSE SubSeq(seq, 1, IF Len(seq) + limit > 0 THEN Len(seq) + limit ELSE 0)

\* seq[:limit] of a Python list, for any integer limit
PySlice(seq, limit) ==
  IF limit >= 0
    THEN SubSeq(seq, 1, IF limit < Len(seq) THEN limit ELSE Len(seq))
    ELSE SubSeq(seq, 1, IF Len(seq) + limit > 0 THEN Len(seq) + limit ELSE 0)

-----------------------------------------------------------------------------
(* Characters.                                                             *)

UpperCase ==
  <<"A","B","C","D","E","F","G","H","I","J","K","L","M",
    "N","O","P","Q","R","S","T","U","V","W","X","Y","Z">>

LowerCase ==
  <<"a","b","c","d","e","f","g","h","i","j","k","l","m",
    "n","o","p","q","r","s","t","u","v","w","x","y","z">>

Digits == {"0","1","2","3","4","5","6","7","8","9"}

Range(f) == {f[i] : i \in DOMAIN f}

UpperSet == Range(UpperCase)

\* the lower-case letter of each upper-case letter
ToLower == [c \in UpperSet |-> LowerCase[CHOOSE i \in 1..26 : UpperCase[i] = c]]

\* str.lower() on one character
LowerChar(c) ==
  IF c \in UpperSet THEN ToLower[c]
  ELSE IF c = "É" THEN "é"
  ELSE c

\* the regex class \w : letters, digits and the underscore
\* (Unicode-aware for a str pattern: the accented letters are word characters)
WordChars ==
  Range(UpperCase) \cup Range(LowerCase) \cup Digits \cup {"_"} \cup {"é", "É"}

\* the regex class \s
SpaceChars == {" ", "\t", "\n"}

IsWordChar(c) == c \in WordChars

IsSpaceChar(c) == c \in SpaceChars

\* the text taken as it is, without lowering its case
lower_asIs(text) == text

\* text.lower()
lower(text) == [i \in 1..Len(text) |-> LowerChar(text[i])]

\* re.sub(r'[^\w\s]', ' ', text_lower)
text_clean_of(text_lower) ==
  [i \in 1..Len(text_lower) |->
     IF ~IsWordChar(text_lower[i]) /\ ~IsSpaceChar(text_lower[i])
       THEN " " ELSE text_lower[i]]

\* Python's  keyword in text_clean  on strings
Contains(keyword, text) ==
  \/ keyword = <<>>
  \/ \E i \in 0..(Len(text) - Len(keyword)) :
        /\ text[i + 1] = keyword[1]
        /\ SubSeq(text, i + 1, i + Len(keyword)) = keyword

-----------------------------------------------------------------------------
(* MoodDetector.detect_emotion                                             *)

\* the loop with the weight added once per occurrence of the keyword
RECURSIVE AddMatches_perOccurrence(_, _, _, _, _)
AddMatches_perOccurrence(keywords, text_clean, weight, score, i) ==
  IF i > Len(keywords) THEN score
  ELSE AddMatches_perOccurrence(keywords, text_clean, weight,
         score + weight * Cardinality({j \in 0..(Len(text_clean) - Len(keywords[i])) :
                    SubSeq(text_clean, j + 1, j + Len(keywords[i])) = keywords[i]}),
         i + 1)

\* one  for keyword in ...: if keyword in text_clean: score += weight  loop
RECURSIVE AddMatches(_, _, _, _, _)
AddMatches(keywords, text_clean, weight, score, i) ==
  IF i > Len(keywords) THEN score
  ELSE AddMatches(keywords, text_clean, weight,
                  IF Contains(keywords[i], text_clean) THEN score + weight ELSE score,
                  i + 1)

\* the body of the loop over emotions: the score of one emotion
EmotionScore(keyword_sets, text_clean) ==
  LET s1 == AddMatches(keyword_sets.primary, text_clean, 3, 0, 1)
      s2 == AddMatches(keyword_sets.secondary, text_clean, 1, s1, 1)
  IN  AddMatches(keyword_sets.intensity, text_clean, 5, s2, 1)

\* the scores dict, filled in the iteration order of emotion_keywords
RECURSIVE ScoresFrom(_, _, _)
ScoresFrom(keywords, text_clean, i) ==
  IF i > Len(keywords) THEN <<>>
  ELSE <<[key |-> keywords[i].key,
          value |-> EmotionScore(keywords[i].value, text_clean)]>>
       \o ScoresFrom(keywords, text_clean, i + 1)

ScoresOf(keywords, text_clean) == ScoresFrom(keywords, text_clean, 1)

\* any(scores.values())
AnyValue(scores) == \E i \in 1..Len(scores) : scores[i].value # 0

\* the maximum taken with >= : the last key with the largest value
RECURSIVE MaxKeyFrom_lastWins(_, _, _)
MaxKeyFrom_lastWins(scores, best, i) ==
  IF i > Len(scores) THEN scores[best].key
  ELSE MaxKeyFrom_lastWins(scores,
                  IF scores[i].value >= scores[best].value THEN i ELSE best,
                  i + 1)

\* max(scores, key=scores.get): the first key with the largest value
RECURSIVE MaxKeyFrom(_, _, _)
MaxKeyFrom(scores, best, i) ==
  IF i > Len(scores) THEN scores[best].key
  ELSE MaxKeyFrom(scores,
                  IF scores[i].value > scores[best].value THEN i ELSE best,
                  i + 1)

MaxKey(scores) == MaxKeyFrom(scores, 1, 2)

\* sum(scores.values())
RECURSIVE SumValues(_, _)
SumValues(scores, i) ==
  IF i > Len(scores) THEN 0 ELSE scores[i].value + SumValues(scores, i + 1)

RECURSIVE GCD(_, _)
GCD(a, b) == IF b = 0 THEN a ELSE GCD(b, a % b)

\* the rounding replaced by cutting off after two decimals
Round2_truncating(n, d) == (100 * n) \div d

\* round(n / d, 2) in hundredths, for the double n / d with 0 <= n <= d.
\* Away from a tie the double rounds as the fraction does.  A tie k.5 needs
\* the reduced denominator to be 8, 40 or 200: the double is exact for 8
\* (round-half-even applies) and lies above or below the tie otherwise.
Round2(n, d) ==
  LET q == (100 * n) \div d
      r == (100 * n) % d
      g == GCD(n, d)
  IN  IF 2 * r < d THEN q
      ELSE IF 2 * r > d THEN q + 1
      ELSE IF d \div g = 8 THEN (IF q % 2 = 0 THEN q ELSE q + 1)
      ELSE IF <<n \div g, d \div g>> \in FloatAboveTie THEN q + 1 ELSE q

\* the confidence without the + 1 in the denominator
Confidence_noPlusOne(max_score, total_score) ==
  IF max_score <= total_score
    THEN <<max_score, total_score>>
    ELSE <<1, 1>>

\* min(max_score / (total_score + 1), 1.0) as a fraction <<n, d>>
Confidence(max_score, total_score) ==
  IF max_score <= total_score + 1
    THEN <<max_score, total_score + 1>>
    ELSE <<1, 1>>

\* the bands taken with > in place of >=
Intensity_strict(max_score) ==
  IF max_score > 5 THEN "high"
  ELSE IF max_score > 3 THEN "medium"
  ELSE "low"

Intensity(max_score) ==
  IF max_score >= 5 THEN "high"
  ELSE IF max_score >= 3 THEN "medium"
  ELSE "low"

\* detect_emotion with a default mood that the vocabulary does not have
detect_emotion_neutralDefault(keywords, text) ==
  LET text_lower == lower(text)
      text_clean == text_clean_of(text_lower)
      scores == ScoresOf(keywords, text_clean)
  IN  IF ~AnyValue(scores)
        THEN [emotion |-> "neutral", confidence |-> 50, intensity |-> "none",
              all_scores |-> scores]
        ELSE LET max_emotion == MaxKey(scores)
                 max_score == DictIndex(scores, max_emotion)
                 total_score == SumValues(scores, 1)
                 confidence == Confidence(max_score, total_score)
             IN  [emotion |-> max_emotion,
                  confidence |-> Round2(confidence[1], confidence[2]),
                  intensity |-> Intensity(max_score),
                  all_scores |-> scores]

\* detect_emotion without the early return for an all-zero score dict
detect_emotion_noDefault(keywords, text) ==
  LET text_lower == lower(text)
      text_clean == text_clean_of(text_lower)
      scores == ScoresOf(keywords, text_clean)
      max_emotion == MaxKey(scores)
      max_score == DictIndex(scores, max_emotion)
      total_score == SumValues(scores, 1)
      confidence == Confidence(max_score, total_score)
  IN  [emotion |-> max_emotion,
       confidence |-> Round2(confidence[1], confidence[2]),
       intensity |-> Intensity(max_score),
       all_scores |-> scores]

detect_emotion(keywords, text) ==
  LET text_lower == lower(text)
      text_clean == text_clean_of(text_lower)
      scores == ScoresOf(keywords, text_clean)
  IN  IF ~AnyValue(scores)
        THEN [emotion |-> "calm", confidence |-> 50, intensity |-> "low",
              all_scores |-> scores]
        ELSE LET max_emotion == MaxKey(scores)
                 max_score == DictIndex(scores, max_emotion)
                 total_score == SumValues(scores, 1)
                 confidence == Confidence(max_score, total_score)
             IN  [emotion |-> max_emotion,
                  confidence |-> Round2(confidence[1], confidence[2]),
                  intensity |-> Intensity(max_score),
                  all_scores |-> scores]

-----------------------------------------------------------------------------
(* MusicRecommender and MoodTuneAPI                                        *)

\* the lookup with an empty list, not the calm list, for a mood without entry
get_recommendations_emptyDefault(database, mood, limit) ==
  LET songs == DictGet(database, mood, <<>>)
  IN  PySlice(songs, limit)

get_recommendations(database, mood, limit) ==
  LET songs == DictGet(database, mood, DictIndex(database, "calm"))
  IN  PySlice(songs, limit)

\* the keys listed from the last to the first
get_all_moods_reversed(database) ==
  [i \in 1..Len(database) |-> database[Len(database) + 1 - i].key]

get_all_moods(database) == DictKeys(database)

\* the pipeline echoing the normalized text as user_input
analyze_and_recommend_cleanInput(keywords, database, user_text, num_songs) ==
  LET result == detect_emotion(keywords, user_text)
      recommendations == get_recommendations(database, result.emotion, num_songs)
  IN  [user_input |-> text_clean_of(lower(user_text)),
       detected_mood |-> result.emotion,
       confidence |-> result.confidence,
       intensity |-> result.intensity,
       recommendations |-> recommendations,
       emotion_scores |-> result.all_scores]

analyze_and_recommend(keywords, database, user_text, num_songs) ==
  LET result == detect_emotion(keywords, user_text)
      recommendations == get_recommendations(database, result.emotion, num_songs)
  IN  [user_input |-> user_text,
       detected_mood |-> result.emotion,
       confidence |-> result.confidence,
       intensity |-> result.intensity,
       recommendations |-> recommendations,
       emotion_scores |-> result.all_scores]

-----------------------------------------------------------------------------
(* The API server: JSON values, responses and the three handlers.          *)

\* JSON values as request.get_json() delivers them, tagged with their
\* Python type; a float is held in hundredths
JStr(chars) == [type |-> "str", val |-> chars]

JInt(n) == [type |-> "int", val |-> n]

JFloat(hundredths) == [type |-> "float", val |-> hundredths]

JBool(b) == [type |-> "bool", val |-> b]

JList(items) == [type |-> "list", val |-> items]

JObject == [type |-> "dict", val |-> <<>>]

JNull == [type |-> "NoneType", val |-> <<>>]

\* a key that the JSON object, or the query string, does not have
Absent == [type |-> "absent", val |-> <<>>]

NoRequest == [route |-> "none"]

NoResponse == [status |-> 0]

NoCoreCall == [op |-> "none"]

NoException == ""

\* the bounds and the default of num_songs
MinSongs == 1

MaxSongs == 20

DefaultSongs == 5

\* isinstance(v, int): bool is a subclass of int
IsInstanceInt(v) == v.type \in {"int", "bool"}

\* the integer that an int or a bool compares as and slices as
IntOf(v) == IF v.type = "bool" THEN (IF v.val THEN 1 ELSE 0) ELSE v.val

\* str(e) of the exception that user_text[:50] raises, if it raises
\* (the dict message is that of CPython up to 3.11)
SubscriptError(v) ==
  CASE v.type \in {"str", "list"} -> NoException
    [] v.type = "dict" -> "unhashable type: 'slice'"
    [] v.type = "int" -> "'int' object is not subscriptable"
    [] v.type = "float" -> "'float' object is not subscriptable"
    [] v.type = "bool" -> "'bool' object is not subscriptable"
    [] v.type = "NoneType" -> "'NoneType' object is not subscriptable"

\* what a handler leaves behind: the response pair (jsonify(...), status),
\* the call it made into the core, and the exception text it caught
Outcome(status, json, made, exception) ==
  [response |-> [status |-> status, json |-> json],
   core_call |-> made,
   raised |-> exception]

\* the except branch of the three handlers
InternalError(made, exception) ==
  Outcome(500, [error |-> "Internal server error", message |-> exception],
          made, exception)

\* POST /analyze with the JSON object data
analyze_mood(keywords, database, data) ==
  IF (data.text = Absent /\ data.num_songs = Absent) \/ data.text = Absent
    THEN Outcome(400, [error |-> "Missing required field: text"],
                 NoCoreCall, NoException)
  ELSE
    LET user_text == data.text
        num_songs == IF data.num_songs = Absent THEN JInt(DefaultSongs)
                     ELSE data.num_songs
        made == [op |-> "analyze_and_recommend", text |-> user_text,
                 limit |-> num_songs]
    IN  IF \/ ~IsInstanceInt(num_songs)
           \/ IntOf(num_songs) < MinSongs
           \/ IntOf(num_songs) > MaxSongs
          THEN Outcome(400,
                       [error |-> "num_songs must be an integer between 1 and 20"],
                       NoCoreCall, NoException)
        ELSE IF SubscriptError(user_text) # NoException
          THEN InternalError(NoCoreCall, SubscriptError(user_text))
        ELSE IF user_text.type # "str"
          THEN InternalError(made, "'list' object has no attribute 'lower'")
        ELSE Outcome(200,
                     analyze_and_recommend(keywords, database, user_text.val,
                                           IntOf(num_songs)),
                     made, NoException)

\* GET /moods
get_moods(database) ==
  Outcome(200, [moods |-> get_all_moods(database)],
          [op |-> "get_all_moods"], NoException)

\* text with the blanks at both ends taken off, as int() does
RECURSIVE Strip(_)
Strip(chars) ==
  IF chars = <<>> THEN chars
  ELSE IF chars[1] \in SpaceChars THEN Strip(Tail(chars))
  ELSE IF chars[Len(chars)] \in SpaceChars THEN Strip(SubSeq(chars, 1, Len(chars) - 1))
  ELSE chars

DigitValue(c) == CHOOSE n \in 0..9 : ToString(n) = c

\* the value of a sequence of decimal digits
RECURSIVE DigitsValue(_)
DigitsValue(digits) ==
  IF digits = <<>> THEN 0
  ELSE 10 * DigitsValue(SubSeq(digits, 1, Len(digits) - 1))
       + DigitValue(digits[Len(digits)])

\* int(value) for an optionally signed run of ASCII digits; any other text
\* makes int raise ValueError, which is the result Absent here
ParseInt(chars) ==
  LET stripped == Strip(chars)
      signed == stripped # <<>> /\ stripped[1] \in {"+", "-"}
      digits == IF signed THEN Tail(stripped) ELSE stripped
  IN  IF digits = <<>> \/ \E i \in 1..Len(digits) : digits[i] \notin Digits
        THEN Absent
      ELSE IF signed /\ stripped[1] = "-" THEN JInt(0 - DigitsValue(digits))
      ELSE JInt(DigitsValue(digits))

\* request.args.get('num_songs', 5, type=int): the default also when the
\* conversion raises ValueError
ArgsGetInt(arg, default) ==
  IF arg = Absent THEN default
  ELSE IF ParseInt(arg.val) = Absent THEN default
  ELSE ParseInt(arg.val).val

\* the handler answering with songs for any mood, without the mood check
recommend_by_mood_noMoodCheck(database, mood, arg) ==
  LET num_songs == ArgsGetInt(arg, DefaultSongs)
  IN  IF num_songs < MinSongs \/ num_songs > MaxSongs
        THEN Outcome(400, [error |-> "num_songs must be between 1 and 20"],
                     NoCoreCall, NoException)
      ELSE Outcome(200,
                   [mood |-> mood,
                    recommendations |-> get_recommendations(database, mood, num_songs)],
                   [op |-> "get_recommendations", mood |-> mood, limit |-> num_songs],
                   NoException)

\* GET /recommend/<mood> with the query argument num_songs
recommend_by_mood(database, mood, arg) ==
  LET num_songs == ArgsGetInt(arg, DefaultSongs)
      available_moods == get_all_moods(database)
  IN  IF num_songs < MinSongs \/ num_songs > MaxSongs
        THEN Outcome(400, [error |-> "num_songs must be between 1 and 20"],
                     NoCoreCall, NoException)
      ELSE IF mood \notin Range(available_moods)
        THEN Outcome(400,
                     [error |-> <<"Invalid mood. Available moods: ", available_moods>>],
                     NoCoreCall, NoException)
      ELSE Outcome(200,
                   [mood |-> mood,
                    recommendations |-> get_recommendations(database, mood, num_songs)],
                   [op |-> "get_recommendations", mood |-> mood, limit |-> num_songs],
                   NoException)

-----------------------------------------------------------------------------
(* SpotifyAPI: the optional client of the external music service.          *)

\* before SpotifyAPI(...) has been constructed
NoClient == [built |-> FALSE, client_id |-> "", client_secret |-> ""]

\* no call of the client is in progress
NoSpCall == [op |-> "none"]

\* the value None where a str is expected
PyNone == "<None>"

\* bool(v) of a token: None and '' are false
Truthy(v) == v.type = "str" /\ v.val # <<>>

\* the reply that the service gives to a request: error is "none" for a 2xx
\* reply with a JSON body, "network" when requests raises, "http" when
\* raise_for_status raises, "not_json" when response.json() raises
Reply(error, body) == [error |-> error, body |-> body]

NoBody == [kind |-> "none"]

\* authenticate()
authenticate(credentials, token, reply) ==
  IF credentials.client_id = "" \/ credentials.client_secret = ""
    THEN [ok |-> FALSE, access_token |-> token]
  ELSE IF reply.error # "none"
    THEN [ok |-> FALSE, access_token |-> token]
  ELSE IF reply.body.kind # "object" \/ ~reply.body.has_access_token
    THEN [ok |-> FALSE, access_token |-> token]
  ELSE [ok |-> TRUE, access_token |-> reply.body.access_token]

\* the test that guards authenticate() in both operations, always true
NeedsAuthentication_always(token) == TRUE

\* the test that guards authenticate() in both operations
NeedsAuthentication(token) == ~Truthy(token)

\* _get_mock_recommendations(mood, limit): a new MusicRecommender
get_mock_recommendations(mood, limit) ==
  get_recommendations(MusicRecommender_init, mood, limit)

\* ', '.join(names)
RECURSIVE JoinNames(_)
JoinNames(names) ==
  IF names = <<>> THEN ""
  ELSE IF Len(names) = 1 THEN names[1]
  ELSE names[1] \o ", " \o JoinNames(Tail(names))

\* the keys that formatting a track of /recommendations subscripts
RecommendationKeys ==
  {"name", "artists", "album", "external_urls", "duration_ms", "popularity"}

\* the keys that formatting a track of /search subscripts
SearchKeys == {"name", "artists", "album", "external_urls", "popularity"}

\* the song dict built from one track of /recommendations
FormatRecommendation(track) ==
  [title |-> track.name,
   artist |-> JoinNames(track.artists),
   album |-> track.album.name,
   year |-> IF track.album.release_date # <<>>
              THEN PySlice(track.album.release_date, 4)
              ELSE <<"N", "/", "A">>,
   preview_url |-> track.preview_url,
   spotify_url |-> track.spotify_url,
   album_art |-> IF track.album.images # <<>> THEN track.album.images[1]
                 ELSE PyNone,
   duration_ms |-> track.duration_ms,
   popularity |-> track.popularity]

\* the track dict built from one track of /search
FormatSearch(track) ==
  [title |-> track.name,
   artist |-> JoinNames(track.artists),
   album |-> track.album.name,
   spotify_url |-> track.spotify_url,
   preview_url |-> track.preview_url,
   popularity |-> track.popularity]

\* the try block of get_recommendations, after the reply has arrived:
\* raised tells whether an exception reached the except clause
TryRecommendations(reply) ==
  IF reply.error # "none" \/ reply.body.kind # "object"
    THEN [raised |-> TRUE, value |-> <<>>]
  ELSE
    LET tracks == IF reply.body.has_tracks THEN reply.body.tracks ELSE JList(<<>>)
    IN  IF tracks.type # "list"
          THEN [raised |-> TRUE, value |-> <<>>]
        ELSE IF \E i \in 1..Len(tracks.val) :
                  tracks.val[i].missing \cap RecommendationKeys # {}
          THEN [raised |-> TRUE, value |-> <<>>]
        ELSE [raised |-> FALSE,
              value |-> [i \in 1..Len(tracks.val) |->
                           FormatRecommendation(tracks.val[i])]]

\* the try block of search_track, after the reply has arrived
TrySearch(reply) ==
  IF reply.error # "none" \/ reply.body.kind # "object"
    THEN [raised |-> TRUE, value |-> <<>>]
  ELSE
    LET tracks == IF reply.body.has_tracks THEN reply.body.tracks ELSE JList(<<>>)
    IN  IF tracks.type # "list"
          THEN [raised |-> TRUE, value |-> <<>>]
        ELSE IF \E i \in 1..Len(tracks.val) :
                  tracks.val[i].missing \cap SearchKeys # {}
          THEN [raised |-> TRUE, value |-> <<>>]
        ELSE [raised |-> FALSE,
              value |-> [i \in 1..Len(tracks.val) |-> FormatSearch(tracks.val[i])]]

\* SpotifyAPI.get_recommendations(mood, limit) when the token request is
\* answered by auth_reply and the live request by reply; authenticated tells
\* whether authenticate() was invoked and live whether the request was sent
SpotifyAPI_get_recommendations(credentials, token, mood, limit, auth_reply, reply) ==
  LET invoked == NeedsAuthentication(token)
      auth == IF invoked THEN authenticate(credentials, token, auth_reply)
              ELSE [ok |-> TRUE, access_token |-> token]
      tried == TryRecommendations(reply)
  IN  IF ~auth.ok
        THEN [access_token |-> auth.access_token, authenticated |-> invoked,
              live |-> FALSE, value |-> get_mock_recommendations(mood, limit)]
      ELSE [access_token |-> auth.access_token, authenticated |-> invoked,
            live |-> TRUE,
            value |-> IF tried.raised THEN get_mock_recommendations(mood, limit)
                      ELSE tried.value]

\* SpotifyAPI.search_track(query, limit)
SpotifyAPI_search_track(credentials, token, auth_reply, reply) ==
  LET invoked == NeedsAuthentication(token)
      auth == IF invoked THEN authenticate(credentials, token, auth_reply)
              ELSE [ok |-> TRUE, access_token |-> token]
      tried == TrySearch(reply)
  IN  IF ~auth.ok
        THEN [access_token |-> auth.access_token, authenticated |-> invoked,
              live |-> FALSE, value |-> <<>>]
      ELSE [access_token |-> auth.access_token, authenticated |-> invoked,
            live |-> TRUE,
            value |-> IF tried.raised THEN <<>> ELSE tried.value]

-----------------------------------------------------------------------------
(* Inputs.                                                                 *)

\* every keyword of the emotion happy, separated by spaces
AllHappy ==
  <<"h","a","p","p","y"," ","j","o","y"," ","e","x","c","i","t","e",
    "d"," ","g","r","e","a","t"," ","a","m","a","z","i","n","g"," ",
    "w","o","n","d","e","r","f","u","l"," ","c","h","e","e","r","f",
    "u","l"," ","d","e","l","i","g","h","t","e","d"," ","g","o","o",
    "d"," ","n","i","c","e"," ","p","l","e","a","s","e","d"," ","s",
    "a","t","i","s","f","i","e","d"," ","c","o","n","t","e","n","t",
    " ","u","p","b","e","a","t"," ","e","c","s","t","a","t","i","c",
    " ","t","h","r","i","l","l","e","d"," ","o","v","e","r","j","o",
    "y","e","d"," ","e","u","p","h","o","r","i","c">>

\* "I'm feeling so happy and excited today!"
ExampleHappy ==
  <<"I","'","m"," ","f","e","e","l","i","n","g"," ","s","o"," ","h",
    "a","p","p","y"," ","a","n","d"," ","e","x","c","i","t","e","d",
    " ","t","o","d","a","y","!">>

\* "just a normal day"
ExampleNormal ==
  <<"j","u","s","t"," ","a"," ","n","o","r","m","a","l"," ","d","a","y">>

\* a keyword that is primary for energetic and for confident
Powerful == <<"p","o","w","e","r","f","u","l">>

\* a keyword that is intensity for energetic and primary for confident
Unstoppable == <<"u","n","s","t","o","p","p","a","b","l","e">>

\* text of letters outside ASCII and a symbol: "é€É"
NonAsciiOnly == <<"é","€","É">>

\* a keyword followed by a symbol and an accented capital: "sad€É"
NonAsciiSad == <<"s","a","d","€","É">>

\* pieces of input text: keywords, a part of a keyword, separators
Fragments ==
  { <<"h","a","p","p","y">>,
    <<"H","A","P","p","y">>,
    <<"c","r","u","s","h">>,
    <<"e","d">>,
    <<"s","a","d">>,
    <<"g","o","o","d">>,
    <<" ">>,
    <<"!">> }

MaxFrags == 3

MaxLimit == 6

RECURSIVE TextsOf(_)
TextsOf(n) ==
  IF n = 0 THEN {<<>>}
  ELSE LET shorter == TextsOf(n - 1)
       IN  shorter \cup {t \o f : t \in shorter, f \in Fragments}

Texts ==
  TextsOf(MaxFrags)
  \cup {AllHappy, ExampleHappy, ExampleNormal, Powerful, Unstoppable}
  \cup {NonAsciiOnly, NonAsciiSad}

MaxEditFrags == 2

\* the texts whose one-character edits are compared
EditTexts == TextsOf(MaxEditFrags)

EditCalls ==
  {[op |-> "detect_emotion", text |-> t, mood |-> "", limit |-> 0] : t \in EditTexts}

Limits == (0 - 1)..MaxLimit

MoodArgs == Range(DictKeys(MusicRecommender_init)) \cup {"not-a-real-mood", ""}

NoCall == [op |-> "none", text |-> <<>>, mood |-> "", limit |-> 0]

Calls ==
  {[op |-> "detect_emotion", text |-> t, mood |-> "", limit |-> 0] : t \in Texts}
  \cup {[op |-> "get_recommendations", text |-> <<>>, mood |-> m, limit |-> n] :
          m \in MoodArgs, n \in Limits}
  \cup {[op |-> "get_all_moods", text |-> <<>>, mood |-> "", limit |-> 0]}
  \cup {[op |-> "analyze_and_recommend", text |-> t, mood |-> "", limit |-> n] :
          t \in Texts, n \in Limits}

Callers == {"main", "t1", "t2"}

\* the request threads of the server, which share one MoodTuneAPI instance
Threads == {"t1", "t2"}

\* what the threads call
ThreadCalls ==
  {[op |-> "analyze_and_recommend", text |-> t, mood |-> "", limit |-> n] :
      t \in {<<>>, <<"s","a","d">>, <<"c","r","u","s","h","e","d">>},
      n \in {1, MaxLimit}}
  \cup {[op |-> "get_recommendations", text |-> <<>>, mood |-> m, limit |-> 2] :
          m \in {"sad", "not-a-real-mood"}}
  \cup {[op |-> "get_all_moods", text |-> <<>>, mood |-> "", limit |-> 0]}
  \cup {[op |-> "detect_emotion", text |-> <<"H","A","P","p","y">>,
         mood |-> "", limit |-> 0]}

\* the values tried for the field text of POST /analyze
TextValues ==
  { Absent, JStr(<<>>), JStr(<<"h","a","p","p","y">>), JStr(ExampleHappy),
    JInt(5), JFloat(350), JBool(TRUE), JNull, JObject,
    JList(<<JStr(<<"h","a","p","p","y">>)>>) }

\* the values tried for the field num_songs of POST /analyze
NumSongsValues ==
  { Absent, JInt(0 - 1), JInt(0), JInt(MinSongs), JInt(3), JInt(MaxSongs),
    JInt(MaxSongs + 1), JStr(<<"5">>), JFloat(500), JFloat(350), JNull,
    JBool(TRUE), JBool(FALSE), JList(<<JInt(5)>>) }

\* the values tried for the query argument num_songs of GET /recommend/<mood>
NumSongsArgs ==
  { Absent, JStr(<<"3">>), JStr(<<"0">>), JStr(<<"2","0">>), JStr(<<"2","1">>),
    JStr(<<"-","1">>), JStr(<<" ","7">>), JStr(<<"a","b","c">>), JStr(<<>>),
    JStr(<<"3",".","5">>) }

\* the moods tried in the path of GET /recommend/<mood>
PathMoods == {"happy", "calm", "confident", "Happy", "not-a-real-mood"}

Requests ==
  {[route |-> "analyze", data |-> [text |-> t, num_songs |-> n]] :
      t \in TextValues, n \in NumSongsValues}
  \cup {[route |-> "moods"]}
  \cup {[route |-> "recommend", mood |-> m, num_songs |-> a] :
          m \in PathMoods, a \in NumSongsArgs}

\* the credentials tried at construction: '' stands for a value that is
\* None or empty
Credentials ==
  {[built |-> TRUE, client_id |-> id, client_secret |-> secret] :
      id \in {"", "id"}, secret \in {"", "secret"}}

\* the replies of the token endpoint
AuthReplies ==
  { Reply("network", NoBody), Reply("http", NoBody), Reply("not_json", NoBody),
    Reply("none", [kind |-> "list"]),
    Reply("none", [kind |-> "object", has_access_token |-> FALSE,
                   access_token |-> JNull]) }
  \cup {Reply("none", [kind |-> "object", has_access_token |-> TRUE,
                       access_token |-> token]) :
          token \in {JNull, JStr(<<>>), JStr(<<"A">>), JStr(<<"B">>)}}

TrackHappy ==
  [missing |-> {}, name |-> "Happy", artists |-> <<"Pharrell Williams">>,
   album |-> [name |-> "G I R L",
              release_date |-> <<"2","0","1","4","-","0","3","-","0","3">>,
              images |-> <<"https://i.scdn.co/image/girl">>],
   preview_url |-> "https://p.scdn.co/mp3-preview/happy",
   spotify_url |-> "https://open.spotify.com/track/happy",
   duration_ms |-> 232720, popularity |-> 85]

\* a track of two artists without release date, cover and preview
TrackBare ==
  [missing |-> {"preview_url"}, name |-> "Under Pressure",
   artists |-> <<"Queen", "David Bowie">>,
   album |-> [name |-> "Hot Space", release_date |-> <<>>, images |-> <<>>],
   preview_url |-> PyNone,
   spotify_url |-> "https://open.spotify.com/track/pressure",
   duration_ms |-> 248440, popularity |-> 80]

\* a track object that lacks the key name
TrackNoName == [TrackHappy EXCEPT !.missing = {"name"}]

\* a track object that lacks the key duration_ms, which /search does not read
TrackNoDuration == [TrackBare EXCEPT !.missing = {"preview_url", "duration_ms"}]

\* the values tried for the key tracks of a reply to /recommendations
TrackLists ==
  { JList(<<>>), JList(<<TrackHappy, TrackBare>>), JList(<<TrackHappy, TrackNoName>>),
    JList(<<TrackNoDuration>>), JNull }

\* the replies of /recommendations and of /search (where tracks stands for
\* the value of tracks.items)
LiveReplies ==
  { Reply("network", NoBody), Reply("http", NoBody), Reply("not_json", NoBody),
    Reply("none", [kind |-> "list"]),
    Reply("none", [kind |-> "object", has_tracks |-> FALSE, tracks |-> JNull]) }
  \cup {Reply("none", [kind |-> "object", has_tracks |-> TRUE, tracks |-> tracks]) :
          tracks \in TrackLists}

\* the moods and limits tried with SpotifyAPI.get_recommendations
SpotifyMoods == {"happy", "not-a-real-mood"}

SpotifyLimits == {0, 2, 10}

-----------------------------------------------------------------------------
(* The state machine: callers invoke operations of the shared instance.    *)

\* detect_emotion assigns to locals only: self.emotion_keywords after a call
emotion_keywords_after_detect(keywords, text) == keywords

\* the lookup cutting the stored list itself down to limit (del songs[limit:])
song_database_after_recommend_truncating(database, mood, limit) ==
  LET hit == IF DictHas(database, mood) THEN mood ELSE "calm"
  IN  [i \in 1..Len(database) |->
         IF database[i].key = hit
           THEN [key |-> hit, value |-> PySlice(database[i].value, limit)]
           ELSE database[i]]

\* get_recommendations slices into a new list: self.song_database after a call
song_database_after_recommend(database, mood, limit) == database

Init ==
  /\ emotion_keywords = MoodDetector_init
  /\ song_database = MusicRecommender_init
  /\ pc = [t \in Callers |-> "idle"]
  /\ call = [t \in Callers |-> NoCall]
  /\ emotion_result = [t \in Callers |-> <<>>]
  /\ ret = [t \in Callers |-> <<>>]
  /\ request = NoRequest
  /\ response = NoResponse
  /\ core_call = NoCoreCall
  /\ raised = NoException
  /\ client = NoClient
  /\ access_token = JNull
  /\ sp_call = NoSpCall
  /\ sp_ret = <<>>

\* caller t invokes an operation with arguments drawn from calls
Invoke(t, calls) ==
  /\ pc[t] = "idle"
  /\ \E c \in calls : call' = [call EXCEPT ![t] = c]
  /\ pc' = [pc EXCEPT ![t] = "called"]
  /\ UNCHANGED <<emotion_keywords, song_database, emotion_result, ret>>
  /\ UNCHANGED <<server_vars, spotify_vars>>

Run_detect_emotion(t) ==
  /\ pc[t] = "called"
  /\ call[t].op = "detect_emotion"
  /\ ret' = [ret EXCEPT ![t] = detect_emotion(emotion_keywords, call[t].text)]
  /\ emotion_keywords' = emotion_keywords_after_detect(emotion_keywords, call[t].text)
  /\ pc' = [pc EXCEPT ![t] = "returned"]
  /\ UNCHANGED <<song_database, call, emotion_result>>
  /\ UNCHANGED <<server_vars, spotify_vars>>

Run_get_recommendations(t) ==
  /\ pc[t] = "called"
  /\ call[t].op = "get_recommendations"
  /\ ret' = [ret EXCEPT ![t] =
               get_recommendations(song_database, call[t].mood, call[t].limit)]
  /\ song_database' =
       song_database_after_recommend(song_database, call[t].mood, call[t].limit)
  /\ pc' = [pc EXCEPT ![t] = "returned"]
  /\ UNCHANGED <<emotion_keywords, call, emotion_result>>
  /\ UNCHANGED <<server_vars, spotify_vars>>

Run_get_all_moods(t) ==
  /\ pc[t] = "called"
  /\ call[t].op = "get_all_moods"
  /\ ret' = [ret EXCEPT ![t] = get_all_moods(song_database)]
  /\ pc' = [pc EXCEPT ![t] = "returned"]
  /\ UNCHANGED <<emotion_keywords, song_database, call, emotion_result>>
  /\ UNCHANGED <<server_vars, spotify_vars>>

\* the whole of analyze_and_recommend, run by a single caller
Run_analyze_and_recommend(t) ==
  /\ pc[t] = "called"
  /\ call[t].op = "analyze_and_recommend"
  /\ LET result == detect_emotion(emotion_keywords, call[t].text)
     IN  /\ ret' = [ret EXCEPT ![t] =
                      analyze_and_recommend(emotion_keywords, song_database,
                                            call[t].text, call[t].limit)]
         /\ emotion_keywords' =
              emotion_keywords_after_detect(emotion_keywords, call[t].text)
         /\ song_database' =
              song_database_after_recommend(song_database, result.emotion,
                                            call[t].limit)
  /\ pc' = [pc EXCEPT ![t] = "returned"]
  /\ UNCHANGED <<call, emotion_result>>
  /\ UNCHANGED <<server_vars, spotify_vars>>

\* analyze_and_recommend on a thread, first statement: the detect_emotion call
Step_detect(t) ==
  /\ pc[t] = "called"
  /\ call[t].op = "analyze_and_recommend"
  /\ emotion_result' = [emotion_result EXCEPT ![t] =
                          detect_emotion(emotion_keywords, call[t].text)]
  /\ emotion_keywords' = emotion_keywords_after_detect(emotion_keywords, call[t].text)
  /\ pc' = [pc EXCEPT ![t] = "detected"]
  /\ UNCHANGED <<song_database, call, ret>>
  /\ UNCHANGED <<server_vars, spotify_vars>>

\* analyze_and_recommend on a thread, the rest: get_recommendations and the
\* returned record
Step_recommend(t) ==
  /\ pc[t] = "detected"
  /\ LET recommendations ==
           get_recommendations(song_database, emotion_result[t].emotion,
                               call[t].limit)
     IN  ret' = [ret EXCEPT ![t] =
                   [user_input |-> call[t].text,
                    detected_mood |-> emotion_result[t].emotion,
                    confidence |-> emotion_result[t].confidence,
                    intensity |-> emotion_result[t].intensity,
                    recommendations |-> recommendations,
                    emotion_scores |-> emotion_result[t].all_scores]]
  /\ song_database' =
       song_database_after_recommend(song_database, emotion_result[t].emotion,
                                     call[t].limit)
  /\ emotion_result' = [emotion_result EXCEPT ![t] = <<>>]
  /\ pc' = [pc EXCEPT ![t] = "returned"]
  /\ UNCHANGED <<emotion_keywords, call>>
  /\ UNCHANGED <<server_vars, spotify_vars>>

\* the caller takes the returned value and is ready for the next call
Return(t) ==
  /\ pc[t] = "returned"
  /\ pc' = [pc EXCEPT ![t] = "idle"]
  /\ call' = [call EXCEPT ![t] = NoCall]
  /\ ret' = [ret EXCEPT ![t] = <<>>]
  /\ UNCHANGED <<emotion_keywords, song_database, emotion_result>>
  /\ UNCHANGED <<server_vars, spotify_vars>>

\* a request arrives at the server
Receive ==
  /\ request = NoRequest
  /\ \E r \in Requests : request' = r
  /\ UNCHANGED <<response, core_call, raised>>
  /\ UNCHANGED <<core_vars, spotify_vars>>

\* the handler has run to its return statement
Handled(outcome) ==
  /\ response' = outcome.response
  /\ core_call' = outcome.core_call
  /\ raised' = outcome.raised
  /\ UNCHANGED request
  /\ UNCHANGED <<core_vars, spotify_vars>>

Handle_analyze_mood ==
  /\ request.route = "analyze"
  /\ response = NoResponse
  /\ Handled(analyze_mood(emotion_keywords, song_database, request.data))

Handle_get_moods ==
  /\ request.route = "moods"
  /\ response = NoResponse
  /\ Handled(get_moods(song_database))

Handle_recommend_by_mood ==
  /\ request.route = "recommend"
  /\ response = NoResponse
  /\ Handled(recommend_by_mood(song_database, request.mood, request.num_songs))

\* the response goes out and the server is ready for the next request
Send ==
  /\ response # NoResponse
  /\ request' = NoRequest
  /\ response' = NoResponse
  /\ core_call' = NoCoreCall
  /\ raised' = NoException
  /\ UNCHANGED <<core_vars, spotify_vars>>

NextServer ==
  \/ Receive
  \/ Handle_analyze_mood
  \/ Handle_get_moods
  \/ Handle_recommend_by_mood
  \/ Send

SpecServer == Init /\ [][NextServer]_vars

\* SpotifyAPI(client_id, client_secret)
Construct ==
  /\ ~client.built
  /\ \E credentials \in Credentials : client' = credentials
  /\ access_token' = JNull
  /\ UNCHANGED <<sp_call, sp_ret>>
  /\ UNCHANGED <<core_vars, server_vars>>

\* a call of get_recommendations runs to its return statement
Call_get_recommendations ==
  /\ client.built
  /\ sp_call = NoSpCall
  /\ \E mood \in SpotifyMoods, limit \in SpotifyLimits,
        auth_reply \in AuthReplies, reply \in LiveReplies :
       LET result == SpotifyAPI_get_recommendations(client, access_token, mood,
                                                    limit, auth_reply, reply)
       IN  /\ access_token' = result.access_token
           /\ sp_call' = [op |-> "get_recommendations", mood |-> mood,
                          limit |-> limit,
                          authenticated |-> result.authenticated,
                          auth_reply |-> IF result.authenticated THEN auth_reply
                                         ELSE Reply("unsent", NoBody),
                          reply |-> IF result.live THEN reply
                                    ELSE Reply("unsent", NoBody)]
           /\ sp_ret' = result.value
  /\ UNCHANGED client
  /\ UNCHANGED <<core_vars, server_vars>>

\* a call of search_track runs to its return statement
Call_search_track ==
  /\ client.built
  /\ sp_call = NoSpCall
  /\ \E auth_reply \in AuthReplies, reply \in LiveReplies :
       LET result == SpotifyAPI_search_track(client, access_token, auth_reply, reply)
       IN  /\ access_token' = result.access_token
           /\ sp_call' = [op |-> "search_track",
                          authenticated |-> result.authenticated,
                          auth_reply |-> IF result.authenticated THEN auth_reply
                                         ELSE Reply("unsent", NoBody),
                          reply |-> IF result.live THEN reply
                                    ELSE Reply("unsent", NoBody)]
           /\ sp_ret' = result.value
  /\ UNCHANGED client
  /\ UNCHANGED <<core_vars, server_vars>>

\* the caller has taken the returned list
SpotifyReturn ==
  /\ sp_call # NoSpCall
  /\ sp_call' = NoSpCall
  /\ sp_ret' = <<>>
  /\ UNCHANGED <<client, access_token>>
  /\ UNCHANGED <<core_vars, server_vars>>

NextSpotify ==
  \/ Construct
  \/ Call_get_recommendations
  \/ Call_search_track
  \/ SpotifyReturn

SpecSpotify == Init /\ [][NextSpotify]_vars

\* one caller, one call at a time
Next ==
  \/ Invoke("main", Calls)
  \/ Run_detect_emotion("main")
  \/ Run_get_recommendations("main")
  \/ Run_get_all_moods("main")
  \/ Run_analyze_and_recommend("main")
  \/ Return("main")

Spec == Init /\ [][Next]_vars

\* one caller scoring the texts whose edits are compared
NextEdits ==
  \/ Invoke("main", EditCalls)
  \/ Run_detect_emotion("main")
  \/ Return("main")

SpecEdits == Init /\ [][NextEdits]_vars

\* the threads of the server interleave their calls on the shared instance
NextThreads ==
  \E t \in Threads :
    \/ Invoke(t, ThreadCalls)
    \/ Run_detect_emotion(t)
    \/ Run_get_recommendations(t)
    \/ Run_get_all_moods(t)
    \/ Step_detect(t)
    \/ Step_recommend(t)
    \/ Return(t)

SpecThreads == Init /\ [][NextThreads]_vars

-----------------------------------------------------------------------------
(* Properties.                                                             *)

\* the single caller has got the value of a call of op
Returned(op) == pc["main"] = "returned" /\ call["main"].op = op

\* the normalized form of the text of the single caller's call
CallTextClean == text_clean_of(lower(call["main"].text))

\* keyword k stands in text at offset i
OccursAt(k, text, i) == \A j \in 1..Len(k) : text[i + j] = k[j]

\* the offsets at which k stands in text
Occurrences(k, text) == {i \in 0..(Len(text) - Len(k)) : OccursAt(k, text, i)}

Occurs(k, text) == Occurrences(k, text) # {}

\* the number of keywords of a list that occur in text, each counted once
NumOccurring(keywords, text) ==
  Cardinality({j \in 1..Len(keywords) : Occurs(keywords[j], text)})

\* the score that the weights 3, 1, 5 give one vocabulary entry on text
WeightedCount(keyword_sets, text) ==
  3 * NumOccurring(keyword_sets.primary, text)
  + NumOccurring(keyword_sets.secondary, text)
  + 5 * NumOccurring(keyword_sets.intensity, text)

\* some keyword of some emotion occurs in text
AnyKeywordOccurs(text) ==
  \E i \in 1..Len(MoodDetector_init) :
    \E tier \in {"primary", "secondary", "intensity"} :
      \E j \in 1..Len(MoodDetector_init[i].value[tier]) :
        Occurs(MoodDetector_init[i].value[tier][j], text)

\* C1: detect_emotion returns, for every mood of the vocabulary, the score
\* 3 * (primary keywords occurring in the normalized text) + 1 * (secondary
\* keywords occurring) + 5 * (intensity keywords occurring), every keyword
\* counted once however often it occurs and independently of the others.
C1_ScoresAreWeightedCounts ==
  Returned("detect_emotion") =>
    /\ Len(ret["main"].all_scores) = Len(MoodDetector_init)
    /\ \A i \in 1..Len(MoodDetector_init) :
         /\ ret["main"].all_scores[i].key = MoodDetector_init[i].key
         /\ ret["main"].all_scores[i].value =
              WeightedCount(MoodDetector_init[i].value, CallTextClean)

\* a text in which the keyword happy stands twice, and a text in which one
\* keyword (crush, romantic) stands inside another (crushed, sad)
C1_Witness ==
  /\ Returned("detect_emotion")
  /\ \/ /\ Cardinality(Occurrences(<<"h","a","p","p","y">>, CallTextClean)) >= 2
        /\ DictIndex(ret["main"].all_scores, "happy") = 3
     \/ /\ Occurs(<<"c","r","u","s","h","e","d">>, CallTextClean)
        /\ DictIndex(ret["main"].all_scores, "sad") = 5
        /\ DictIndex(ret["main"].all_scores, "romantic") = 3

\* C2: when some score is non-zero, the returned mood has the maximum score
\* and is the first mood in declaration order that has it.
C2_FirstMaximumWins ==
  (Returned("detect_emotion") /\ AnyValue(ret["main"].all_scores)) =>
    \E i \in 1..Len(ret["main"].all_scores) :
      /\ ret["main"].emotion = ret["main"].all_scores[i].key
      /\ ret["main"].all_scores[i].key = DictKeys(MoodDetector_init)[i]
      /\ \A j \in 1..Len(ret["main"].all_scores) :
           /\ ret["main"].all_scores[j].value <= ret["main"].all_scores[i].value
           /\ j < i => ret["main"].all_scores[j].value < ret["main"].all_scores[i].value

\* two moods share the maximum and the one declared first is returned
C2_Witness ==
  /\ Returned("detect_emotion")
  /\ AnyValue(ret["main"].all_scores)
  /\ \E i, j \in 1..Len(ret["main"].all_scores) :
       /\ i < j
       /\ ret["main"].emotion = ret["main"].all_scores[i].key
       /\ ret["main"].all_scores[j].value = ret["main"].all_scores[i].value

\* C3: a text in which no keyword of any mood occurs gets mood calm,
\* confidence 0.5, intensity low and a score of 0 for every mood.
C3_NoKeywordDefault ==
  (Returned("detect_emotion") /\ ~AnyKeywordOccurs(CallTextClean)) =>
    /\ ret["main"].emotion = "calm"
    /\ ret["main"].confidence = 50
    /\ ret["main"].intensity = "low"
    /\ DictKeys(ret["main"].all_scores) = DictKeys(MoodDetector_init)
    /\ \A i \in 1..Len(ret["main"].all_scores) : ret["main"].all_scores[i].value = 0

\* the text "just a normal day" has been scored
C3_Witness ==
  /\ Returned("detect_emotion")
  /\ call["main"].text = ExampleNormal
  /\ ~AnyKeywordOccurs(CallTextClean)
  /\ ret["main"].emotion = "calm"

\* a character that is neither a letter, a digit nor whitespace
IsPunctuation(c) == c \notin (WordChars \ {"_"}) \cup SpaceChars

\* the punctuation characters that the edits insert
PunctChars == {"!", "'"}

\* the case of the letter at position i changed
ToggleCase(text, i) ==
  [text EXCEPT ![i] =
     IF text[i] \in UpperSet THEN ToLower[text[i]]
     ELSE UpperCase[CHOOSE k \in 1..26 : LowerCase[k] = text[i]]]

\* character c put in after position i
InsertAt(text, i, c) == SubSeq(text, 1, i) \o <<c>> \o SubSeq(text, i + 1, Len(text))

\* the character at position i taken out
RemoveAt(text, i) == SubSeq(text, 1, i - 1) \o SubSeq(text, i + 1, Len(text))

\* the gap after position i lies between two word characters
InsideWord(text, i) ==
  /\ 1 <= i /\ i < Len(text)
  /\ IsWordChar(text[i]) /\ IsWordChar(text[i + 1])

\* the character at position i stands between two word characters
JoinsWords(text, i) ==
  /\ 1 < i /\ i < Len(text)
  /\ IsWordChar(text[i - 1]) /\ IsWordChar(text[i + 1])

CaseEdits(text) ==
  {ToggleCase(text, i) :
     i \in {k \in 1..Len(text) : text[k] \in UpperSet \cup Range(LowerCase)}}

\* punctuation inserted or removed anywhere
PunctEdits(text) ==
  {InsertAt(text, i, c) : i \in 0..Len(text), c \in PunctChars}
  \cup {RemoveAt(text, i) : i \in {k \in 1..Len(text) : IsPunctuation(text[k])}}

\* punctuation inserted or removed where it neither splits nor joins a run
\* of word characters
BoundaryPunctEdits(text) ==
  {InsertAt(text, i, c) :
     i \in {k \in 0..Len(text) : ~InsideWord(text, k)}, c \in PunctChars}
  \cup {RemoveAt(text, i) :
          i \in {k \in 1..Len(text) : IsPunctuation(text[k]) /\ ~JoinsWords(text, k)}}

\* C4 as stated: the result is the same after a change of case and after
\* punctuation is inserted or removed anywhere, also between two letters.
C4_AnyPunctuationEdit ==
  Returned("detect_emotion") =>
    \A e \in CaseEdits(call["main"].text) \cup PunctEdits(call["main"].text) :
      detect_emotion(emotion_keywords, e) = ret["main"]

\* C4 amended: the result is the same after a change of case of a letter and
\* after punctuation is inserted or removed at a place that is not between
\* two word characters (at an end of the text, next to whitespace or next to
\* other punctuation).
C4_CaseAndBoundaryPunctuation ==
  Returned("detect_emotion") =>
    \A e \in CaseEdits(call["main"].text) \cup BoundaryPunctEdits(call["main"].text) :
      detect_emotion(emotion_keywords, e) = ret["main"]

\* a text with an upper-case letter and punctuation next to a matched keyword
C4_Witness ==
  /\ Returned("detect_emotion")
  /\ AnyValue(ret["main"].all_scores)
  /\ \E i \in 1..Len(call["main"].text) : call["main"].text[i] \in UpperSet
  /\ \E i \in 1..Len(call["main"].text) :
       IsPunctuation(call["main"].text[i]) /\ ~JoinsWords(call["main"].text, i)

\* C5: the confidence lies in [0, 1] (in hundredths: 0..100), and for a text
\* that matches a keyword it is strictly between 0 and 1 after rounding.
C5_ConfidenceRange ==
  Returned("detect_emotion") =>
    /\ ret["main"].confidence \in 0..100
    /\ AnyKeywordOccurs(CallTextClean) =>
         (0 < ret["main"].confidence /\ ret["main"].confidence < 100)

\* every keyword of one mood matches and no other mood scores: the largest
\* confidence the vocabulary allows
C5_Witness ==
  /\ Returned("detect_emotion")
  /\ call["main"].text = AllHappy
  /\ DictIndex(ret["main"].all_scores, "happy") = 50
  /\ ret["main"].confidence = 98

\* s is an initial segment of t
IsPrefix(s, t) == Len(s) <= Len(t) /\ \A i \in 1..Len(s) : s[i] = t[i]

Min(a, b) == IF a < b THEN a ELSE b

\* C6: for a mood of the catalog and a count >= 1, get_recommendations
\* returns exactly min(count, len(Catalog[mood])) entries, the first ones of
\* Catalog[mood] in stored order.
C6_FirstEntriesOfMood ==
  (/\ Returned("get_recommendations")
   /\ DictHas(song_database, call["main"].mood)
   /\ call["main"].limit >= 1) =>
    LET stored == DictIndex(song_database, call["main"].mood)
    IN  /\ Len(ret["main"]) = Min(call["main"].limit, Len(stored))
        /\ \A i \in 1..Len(ret["main"]) : ret["main"][i] = stored[i]

\* a count above the length of the mood's sequence: all entries, no more
C6_Witness ==
  /\ Returned("get_recommendations")
  /\ call["main"].mood = "romantic"
  /\ call["main"].limit > Len(romantic_songs)
  /\ ret["main"] = romantic_songs

\* C7: for a mood that is not a key of the catalog, and any count,
\* get_recommendations returns what it returns for calm with that count.
C7_UnknownMoodIsCalm ==
  (Returned("get_recommendations") /\ ~DictHas(song_database, call["main"].mood)) =>
    /\ ret["main"] = get_recommendations(song_database, "calm", call["main"].limit)
    /\ IsPrefix(ret["main"], calm_songs)
    /\ call["main"].limit >= 1 =>
         Len(ret["main"]) = Min(call["main"].limit, Len(calm_songs))

\* the lookup of "not-a-real-mood" with count 3
C7_Witness ==
  /\ Returned("get_recommendations")
  /\ call["main"].mood = "not-a-real-mood"
  /\ call["main"].limit = 3
  /\ ret["main"] = SubSeq(calm_songs, 1, 3)

\* C8: every mood of the vocabulary is a key of the catalog with a non-empty
\* sequence; analyze_and_recommend detects a mood of the catalog, recommends
\* from that mood's own sequence, and returns an entry when num_songs >= 1.
C8_DetectedMoodInCatalog ==
  /\ \A i \in 1..Len(emotion_keywords) :
       /\ DictHas(song_database, emotion_keywords[i].key)
       /\ DictIndex(song_database, emotion_keywords[i].key) # <<>>
  /\ Returned("analyze_and_recommend") =>
       /\ DictHas(song_database, ret["main"].detected_mood)
       /\ IsPrefix(ret["main"].recommendations,
                   DictIndex(song_database, ret["main"].detected_mood))
       /\ call["main"].limit >= 1 => Len(ret["main"].recommendations) >= 1

\* a text detected as sad is answered with the first sad songs
C8_Witness ==
  /\ Returned("analyze_and_recommend")
  /\ ret["main"].detected_mood = "sad"
  /\ call["main"].limit = 2
  /\ ret["main"].recommendations = SubSeq(sad_songs, 1, 2)

\* C9: analyze_and_recommend returns the original text as user_input, the
\* fields of detect_emotion(text), and get_recommendations of the detected
\* mood and the count.
C9_PipelineComposes ==
  Returned("analyze_and_recommend") =>
    LET result == detect_emotion(emotion_keywords, call["main"].text)
    IN  /\ ret["main"].user_input = call["main"].text
        /\ ret["main"].detected_mood = result.emotion
        /\ ret["main"].confidence = result.confidence
        /\ ret["main"].intensity = result.intensity
        /\ ret["main"].emotion_scores = result.all_scores
        /\ ret["main"].recommendations =
             get_recommendations(song_database, result.emotion, call["main"].limit)

\* analyze("I'm feeling so happy and excited today!", 3): the text comes back
\* with its capitals and punctuation, the mood is happy with high intensity,
\* and the three songs are the first three happy songs
C9_Witness ==
  /\ Returned("analyze_and_recommend")
  /\ call["main"].text = ExampleHappy
  /\ call["main"].limit = 3
  /\ ret["main"].user_input = ExampleHappy
  /\ ret["main"].user_input # CallTextClean
  /\ ret["main"].detected_mood = "happy"
  /\ ret["main"].intensity = "high"
  /\ ret["main"].recommendations = SubSeq(happy_songs, 1, 3)

\* the value of call c on a freshly constructed instance
FreshResult(c) ==
  CASE c.op = "detect_emotion" -> detect_emotion(MoodDetector_init, c.text)
    [] c.op = "get_recommendations" ->
         get_recommendations(MusicRecommender_init, c.mood, c.limit)
    [] c.op = "get_all_moods" -> get_all_moods(MusicRecommender_init)
    [] c.op = "analyze_and_recommend" ->
         analyze_and_recommend(MoodDetector_init, MusicRecommender_init,
                               c.text, c.limit)

\* C10: no operation changes the vocabulary or the catalog, and under every
\* interleaving of the threads each call returns what the same call returns
\* on a fresh instance.
C10_CallsAreIsolated ==
  /\ emotion_keywords = MoodDetector_init
  /\ song_database = MusicRecommender_init
  /\ \A t \in Threads : pc[t] = "returned" => ret[t] = FreshResult(call[t])

\* one thread has returned from analyze_and_recommend while the other is
\* between the two steps of its own analyze_and_recommend
C10_Witness ==
  /\ pc["t1"] = "returned"
  /\ call["t1"].op = "analyze_and_recommend"
  /\ call["t1"].limit = 1
  /\ pc["t2"] = "detected"
  /\ call["t2"].limit = MaxLimit
  /\ emotion_result["t2"].emotion = ret["t1"].detected_mood

\* the nine moods in the order of their declaration
NineMoods ==
  <<"happy", "sad", "energetic", "calm", "romantic", "angry", "anxious",
    "nostalgic", "confident">>

\* C11: for every text, also an empty one, one of punctuation only and one
\* with characters outside ASCII, detect_emotion returns one of the nine
\* moods, an intensity among low, medium and high, and a score that is a
\* non-negative integer for each of the nine moods and for nothing else.
C11_WellFormedResult ==
  Returned("detect_emotion") =>
    /\ ret["main"].emotion \in Range(NineMoods)
    /\ ret["main"].intensity \in {"low", "medium", "high"}
    /\ DictKeys(ret["main"].all_scores) = NineMoods
    /\ \A i \in 1..Len(ret["main"].all_scores) :
         ret["main"].all_scores[i].value \in Nat

\* texts without any ASCII letter have been scored: "é€É" and "!!!"
C11_Witness ==
  /\ Returned("detect_emotion")
  /\ call["main"].text \in {NonAsciiOnly, <<"!","!","!">>}
  /\ ret["main"].emotion = "calm"

\* C17: get_all_moods returns the nine catalog keys, each once, in the order
\* of construction, whatever the other thread has called in between.
C17_MoodsInConstructionOrder ==
  \A t \in Threads :
    (pc[t] = "returned" /\ call[t].op = "get_all_moods") =>
      /\ ret[t] = NineMoods
      /\ \A i, j \in 1..Len(ret[t]) : ret[t][i] = ret[t][j] => i = j
      /\ \A i \in 1..Len(ret[t]) : DictHas(song_database, ret[t][i])
      /\ Len(ret[t]) = Len(song_database)

\* one thread has the list of moods while the other has completed a lookup
C17_Witness ==
  /\ pc["t1"] = "returned"
  /\ call["t1"].op = "get_all_moods"
  /\ ret["t1"][1] = "happy"
  /\ pc["t2"] = "returned"
  /\ call["t2"].op = "get_recommendations"

\* the score of the returned mood
WinningScore == DictIndex(ret["main"].all_scores, ret["main"].emotion)

\* C18: for a text that matches a keyword the confidence is
\* winning_score / (sum of all scores + 1) rounded to two decimals, that is
\* a hundredth nearest to the fraction (the clamp at 1.0 never applies); the
\* text that matches only happy and excited has happy = 6 and confidence 0.86.
C18_ConfidenceIsRoundedRatio ==
  (Returned("detect_emotion") /\ AnyValue(ret["main"].all_scores)) =>
    LET n == WinningScore
        d == SumValues(ret["main"].all_scores, 1) + 1
        c == ret["main"].confidence
        diff == IF 100 * n >= c * d THEN 100 * n - c * d ELSE c * d - 100 * n
    IN  /\ n < d
        /\ 2 * diff <= d
        /\ call["main"].text = ExampleHappy => (n = 6 /\ d = 7 /\ c = 86)

\* the text "I'm feeling so happy and excited today!" has been scored
C18_Witness ==
  /\ Returned("detect_emotion")
  /\ call["main"].text = ExampleHappy
  /\ WinningScore = 6
  /\ ret["main"].confidence = 86

\* C19: for a text that matches a keyword the intensity follows from the
\* winning score alone: high iff >= 5, medium iff 3 or 4, low iff 1 or 2.
C19_IntensityBands ==
  (Returned("detect_emotion") /\ AnyValue(ret["main"].all_scores)) =>
    /\ WinningScore >= 1
    /\ ret["main"].intensity = "high" <=> WinningScore >= 5
    /\ ret["main"].intensity = "medium" <=> WinningScore \in {3, 4}
    /\ ret["main"].intensity = "low" <=> WinningScore \in {1, 2}

\* a winning score on the boundary of a band, with another mood scoring too
C19_Witness ==
  /\ Returned("detect_emotion")
  /\ WinningScore = 5
  /\ ret["main"].intensity = "high"
  /\ SumValues(ret["main"].all_scores, 1) > 5

-----------------------------------------------------------------------------
(* The API server.                                                         *)

\* the handler of the given route has produced its response
Answered(route) == request.route = route /\ response # NoResponse

\* C12: at /analyze a num_songs that is present and is outside 1..20 or is
\* not of integer type (string, float, null, boolean) is rejected with a
\* client error before analyze_and_recommend is called; that operation is
\* only called with an integer count in 1..20, and with 5 when num_songs is
\* omitted
C12_NumSongsValidated ==
  Answered("analyze") =>
    LET num_songs == request.data.num_songs
        valid == num_songs.type = "int" /\ num_songs.val \in MinSongs..MaxSongs
    IN  /\ (num_songs # Absent /\ ~valid) =>
              /\ response.status \in 400..499
              /\ core_call = NoCoreCall
        /\ core_call # NoCoreCall =>
              /\ core_call.limit.type = "int"
              /\ core_call.limit.val \in MinSongs..MaxSongs
              /\ (num_songs = Absent => core_call.limit.val = DefaultSongs)

\* C13: at /recommend/<mood> a mood that get_all_moods() does not list gets
\* an explicit error response without songs, and get_recommendations is not
\* called, whatever num_songs is supplied
C13_UnknownMoodRejected ==
  Answered("recommend") =>
    /\ request.mood \notin Range(get_all_moods(song_database)) =>
          /\ response.status = 400
          /\ DOMAIN response.json = {"error"}
          /\ core_call = NoCoreCall
    /\ core_call # NoCoreCall =>
          /\ core_call.op = "get_recommendations"
          /\ core_call.mood = request.mood
          /\ DictHas(song_database, core_call.mood)

\* an unknown mood, with a valid num_songs, has been answered with the
\* error that lists the available moods
C13_Witness ==
  /\ Answered("recommend")
  /\ request.mood = "not-a-real-mood"
  /\ request.num_songs.type = "str"
  /\ ParseInt(request.num_songs.val) = JInt(3)
  /\ response.status = 400
  /\ response.json.error = <<"Invalid mood. Available moods: ",
                             get_all_moods(song_database)>>

\* C14: at /analyze a text that is missing or is not a string (number,
\* list, object, null) is answered with a client-input rejection that names
\* the field text, and never with the internal-server-error response
C14_TextValidated ==
  (Answered("analyze") /\ request.data.text.type # "str") =>
    /\ response.status = 400
    /\ response.json.error = "Missing required field: text"

\* C15: a response for an unexpected internal failure carries only the
\* generic internal-error indicator and no text of the exception
C15_NoExceptionText ==
  (response # NoResponse /\ response.status = 500) =>
    /\ response.json.error = "Internal server error"
    /\ \A field \in DOMAIN response.json : response.json[field] # raised

-----------------------------------------------------------------------------
(* SpotifyAPI.                                                             *)

\* authenticate() was invoked in the call and returned False
AuthenticationFailed(made) ==
  /\ made.authenticated
  /\ ~authenticate(client, JNull, made.auth_reply).ok

\* the live request did not get a 2xx reply
RequestFailed(made) == made.reply.error \in {"network", "http"}

\* the body of the reply is not JSON, or is not an object with a list of
\* complete track objects under the key tracks
MalformedBody(made) ==
  \/ made.reply.error = "not_json"
  \/ /\ made.reply.error = "none"
     /\ \/ made.reply.body.kind # "object"
        \/ ~made.reply.body.has_tracks
        \/ made.reply.body.tracks.type # "list"
        \/ \E i \in 1..Len(made.reply.body.tracks.val) :
              made.reply.body.tracks.val[i].missing \cap RecommendationKeys # {}

\* C16: when get_recommendations(mood, limit) of SpotifyAPI hits a failure
\* (credentials missing, authentication fails, network error, non-2xx reply,
\* malformed body) it returns what MusicRecommender.get_recommendations(mood,
\* limit) returns, with the fallback to calm for an unknown mood
C16_FallbackOnAnyFailure ==
  (/\ sp_call.op = "get_recommendations"
   /\ \/ AuthenticationFailed(sp_call)
      \/ RequestFailed(sp_call)
      \/ MalformedBody(sp_call))
  => sp_ret = PySlice(DictIndex(MusicRecommender_init,
                                IF DictHas(MusicRecommender_init, sp_call.mood)
                                  THEN sp_call.mood ELSE "calm"),
                      sp_call.limit)

\* a call of the client starts and runs to its return statement
SpotifyCallStep == sp_call = NoSpCall /\ sp_call' # NoSpCall

\* what the operation returns in place of live data
FallbackOf(made) ==
  IF made.op = "get_recommendations"
    THEN get_recommendations(MusicRecommender_init, made.mood, made.limit)
    ELSE <<>>

\* C20: over the calls of get_recommendations and search_track on one
\* client, authenticate() is invoked exactly in the calls that start with
\* access_token unset (None or empty); a failed authentication leaves it
\* unset; a token that is set is never cleared or replaced; and a live
\* request that fails while the token is set returns the fallback without
\* another authentication
C20_AuthenticateOnlyWhileUnset ==
  [][/\ Truthy(access_token) => access_token' = access_token
     /\ SpotifyCallStep =>
          /\ sp_call'.authenticated <=> ~Truthy(access_token)
          /\ AuthenticationFailed(sp_call') =>
                /\ access_token' = access_token
                /\ ~Truthy(access_token')
          /\ (Truthy(access_token) /\ RequestFailed(sp_call')) =>
                /\ ~sp_call'.authenticated
                /\ sp_ret' = FallbackOf(sp_call')]_vars

\* with a token set by an earlier call, the live request of
\* get_recommendations has been refused and the catalog songs come back
\* without authenticate() having been invoked
C20_Witness ==
  /\ sp_call # NoSpCall
  /\ sp_call.op = "get_recommendations"
  /\ Truthy(access_token)
  /\ ~sp_call.authenticated
  /\ sp_call.reply.error = "http"
  /\ sp_ret # <<>>
  /\ sp_ret = FallbackOf(sp_call)

====
